---- MODULE Spec2Model ----
(***************************************************************************)
(* Model of redis-glue (src/src/lib.rs): RedisConfig, RedisClient,         *)
(* RedisConnection (Rc<RefCell<..>> handles) and the Redis facade.         *)
(* Tasks run on one thread (Rc is not Send); a Single exec holds the       *)
(* RefCell's RefMut across its await, a Cluster exec runs to completion.   *)
(***************************************************************************)
EXTENDS Integers, Sequences, FiniteSets, TLC

\* ---------------------------------------------------------------- bounds
NumTasks == 2
MaxCalls == 2
MaxHandles == 3

Tasks == 1..NumTasks
Keys == {"testval"}
Vals == {"4", "x"}
Variants == {"Single", "Cluster"}
Addrs == {"good", "unparsable", "unreachable"}
Types == {"Unit", "Str"}
Outcomes == {"ok", "io", "malformed"}

\* ------------------------------------------------------ values and replies
Nil == [k |-> "Nil", s |-> ""]
Okay == [k |-> "Okay", s |-> "OK"]
Status(s) == [k |-> "Status", s |-> s]
Data(s) == [k |-> "Data", s |-> s]

PingReplies == {Status("PONG"), Status("LOADING"), Data("PONG")}

NoVal == "-"
Unknown == "?"
Occurrences(seq, x) == Cardinality({i \in DOMAIN seq : seq[i] = x})

Ok(ty, s, raw) == [tag |-> "Ok", ty |-> ty, s |-> s, raw |-> raw, kind |-> ""]
Err(kind) == [tag |-> "Err", ty |-> "", s |-> "", raw |-> Nil, kind |-> kind]
Bool(b) == [tag |-> "Bool", ty |-> "", s |-> IF b THEN "true" ELSE "false", raw |-> Nil, kind |-> ""]
NoResult == [tag |-> "None", ty |-> "", s |-> "", raw |-> Nil, kind |-> ""]

SetCmd(k, v) == [op |-> "SET", k |-> k, v |-> v]
GetCmd(k) == [op |-> "GET", k |-> k, v |-> ""]
PingCmd == [op |-> "PING", k |-> "", v |-> ""]
ExecCmds == {SetCmd(k, v) : k \in Keys, v \in Vals} \cup {GetCmd(k) : k \in Keys}

NoCfg == [variant |-> "None", addr |-> ""]
Configs == [variant : Variants, addr : Addrs]

NoCall == [id |-> 0, h |-> 0, con |-> 0, variant |-> "None", cmd |-> PingCmd,
           ty |-> "Unit", ping |-> FALSE, held |-> FALSE]
NoSet == [v |-> Unknown, h |-> 0]
NoDone == [t |-> 0, call |-> NoCall, outcome |-> "none", reply |-> Nil,
           res |-> NoResult, ret |-> NoResult]

\* cfg .. strong: the facade and its handles; guard: the RefCell borrow flag;
\* store: the server's keyspace; wire / acq: call ids in the order the
\* connection served them / their execs acquired the guard; pc, call: each
\* task's position and the call it is in; done: the latest return of exec or
\* ping; lastSet, errSeen: history of the calls already returned.
VARIABLES cfg, newState, client, opened, handles, strong, guard, store,
          wire, acq, nCalls, pc, call, done, lastSet, errSeen

vars == <<cfg, newState, client, opened, handles, strong, guard, store,
          wire, acq, nCalls, pc, call, done, lastSet, errSeen>>

facadeVars == <<cfg, newState, client, opened>>
taskVars == <<guard, store, wire, acq, nCalls, pc, call, done, lastSet, errSeen>>

\* ------------------------------------------------------------ conversions
\* T: FromRedisValue -- decoding of a reply into the requested type: () takes
\* any reply, Value is the reply itself, String takes a bulk or status string.
Decode(v, ty) ==
    CASE ty = "Unit" -> Ok("Unit", "", Nil)
      [] ty = "Value" -> Ok("Value", "", v)
      [] ty = "Str" -> IF v.k \in {"Data", "Status", "Okay"}
                       THEN Ok("Str", v.s, Nil)
                       ELSE Err("type")

\* The server side of one command, as the tests use it: SET stores, GET reads.
Apply(st, cmd) ==
    IF cmd.op = "SET" THEN [st EXCEPT ![cmd.k] = cmd.v] ELSE st

ServerReply(st, cmd, pingReply) ==
    CASE cmd.op = "SET" -> Okay
      [] cmd.op = "GET" -> IF st[cmd.k] = NoVal THEN Nil ELSE Data(st[cmd.k])
      [] cmd.op = "PING" -> pingReply

\* cmd.query_async(..).await / cmd.query(..): the RedisResult<T> of one send.
QueryResultDropsReply(outcome, reply, ty) ==
    IF outcome = "io" THEN Err("io")
    ELSE IF outcome = "malformed" THEN Err("protocol")
    ELSE Decode(Nil, ty)

QueryResultUnwraps(outcome, reply, ty) ==
    IF outcome = "io" THEN [Err("io") EXCEPT !.tag = "Panic"]
    ELSE IF outcome = "malformed" THEN Err("protocol")
    ELSE Decode(reply, ty)

QueryResult(outcome, reply, ty) ==
    IF outcome = "io" THEN Err("io")
    ELSE IF outcome = "malformed" THEN Err("protocol")
    ELSE Decode(reply, ty)

\* ping(): if let Ok(Value::Status(v)) = exec(PING) { v == "PONG" } else { false }
PingResultAnyStatus(r) ==
    r.tag = "Ok" /\ r.raw.k = "Status"

PingResult(r) ==
    IF r.tag = "Ok" /\ r.raw.k = "Status" THEN r.raw.s = "PONG" ELSE FALSE

\* ------------------------------------------------------------------ RefCell
Holders(g, c) == {t \in Tasks : <<c, t>> \in g}

\* RefCell::borrow_mut succeeds only when the cell is not borrowed.
BorrowMutUnchecked(g, c) == TRUE

BorrowMut(g, c) == Holders(g, c) = {}

\* The RefMut temporary is dropped when exec returns, whatever the result.
ReleaseOnlyOnOk(g, c, t, r) == IF r.tag = "Err" THEN g ELSE g \ {<<c, t>>}

Release(g, c, t, r) == g \ {<<c, t>>}

\* Single awaits query_async; Cluster calls the blocking query.
SuspendsAlways(variant) == TRUE

Suspends(variant) == variant = "Single"

\* ---------------------------------------------------------- construction
\* RedisConfig::connect: Client::open(..).unwrap() per variant.
ClientVariantSwapped(c) == IF c.variant = "Single" THEN "Cluster" ELSE "Single"

ClientVariant(c) == IF c.variant = "Single" THEN "Single" ELSE "Cluster"

ParseFails(c) == c.addr = "unparsable"

\* Redis::connect: the connection variant follows the client variant.
ConnectionVariant(cl) == IF cl = "Single" THEN "Single" ELSE "Cluster"

ConnectFails(c) == c.addr = "unreachable"

Init ==
    /\ cfg = NoCfg
    /\ newState = "init"
    /\ client = "None"
    /\ opened = 0
    /\ handles = << >>
    /\ strong = 0
    /\ guard = {}
    /\ store = [k \in Keys |-> NoVal]
    /\ wire = << >>
    /\ acq = << >>
    /\ nCalls = 0
    /\ pc = [t \in Tasks |-> "idle"]
    /\ call = [t \in Tasks |-> NoCall]
    /\ done = NoDone
    /\ lastSet = [k \in Keys |-> NoSet]
    /\ errSeen = FALSE

\* Redis::new(config): connect().await? then build the facade.
RedisNew(c) ==
    /\ newState = "init"
    /\ cfg' = c
    /\ IF ParseFails(c)
       THEN /\ newState' = "panic"
            /\ UNCHANGED <<client, opened, handles, strong>>
       ELSE IF ConnectFails(c)
       THEN /\ newState' = "err"
            /\ UNCHANGED <<client, opened, handles, strong>>
       ELSE /\ newState' = "ok"
            /\ client' = ClientVariant(c)
            /\ opened' = opened + 1
            /\ handles' = <<[variant |-> ConnectionVariant(ClientVariant(c)),
                             con |-> opened + 1]>>
            /\ strong' = 1
    /\ UNCHANGED taskVars

\* RedisConnection::get_client: Rc::clone of the same cell, same variant.
CloneHandleReopens(h, n) == [variant |-> h.variant, con |-> n + 1]

CloneHandle(h, n) == [variant |-> h.variant, con |-> h.con]

RedisConnectionGetClient(h) ==
    /\ newState = "ok"
    /\ h \in DOMAIN handles
    /\ Len(handles) < MaxHandles
    /\ handles' = Append(handles, CloneHandle(handles[h], opened))
    /\ strong' = strong + 1
    /\ opened' = IF handles'[Len(handles')].con > opened THEN opened + 1 ELSE opened
    /\ UNCHANGED <<cfg, newState, client>>
    /\ UNCHANGED taskVars

\* Redis::get_client: self.connection.get_client()
RedisGetClient ==
    /\ newState = "ok"
    /\ RedisConnectionGetClient(1)

\* ------------------------------------------------------------- exec, ping
\* The round trip of one command and the return of exec (or of ping).
Complete(t, cl, outcome, applied, pingReply, g) ==
    LET reply == ServerReply(store, cl.cmd, pingReply)
        r == QueryResult(outcome, reply, cl.ty)
    IN /\ store' = IF outcome = "io" /\ ~applied THEN store ELSE Apply(store, cl.cmd)
       /\ wire' = Append(wire, cl.id)
       /\ guard' = Release(g, cl.con, t, r)
       /\ IF r.tag = "Panic"
          THEN /\ pc' = [pc EXCEPT ![t] = "panicked"]
               /\ call' = [call EXCEPT ![t] = [cl EXCEPT !.cmd = PingCmd, !.ty = "Unit", !.h = 0]]
               /\ UNCHANGED done
          ELSE /\ pc' = [pc EXCEPT ![t] = "idle"]
               /\ call' = [call EXCEPT ![t] = NoCall]
               /\ done' = [t |-> t, call |-> cl, outcome |-> outcome, reply |-> reply,
                           res |-> r,
                           ret |-> IF cl.ping THEN Bool(PingResult(r)) ELSE r]
       /\ errSeen' = (errSeen \/ r.tag = "Err")
       /\ IF cl.cmd.op = "SET"
          THEN lastSet' = [lastSet EXCEPT ![cl.cmd.k] =
                              IF r.tag = "Ok" THEN [v |-> cl.cmd.v, h |-> cl.h] ELSE NoSet]
          ELSE UNCHANGED lastSet

\* The ways one round trip can end: the transport outcome, whether a command
\* whose reply was lost had reached the server, and the server's answer to PING.
Endings(cl) ==
    {e \in [outcome : Outcomes, applied : BOOLEAN, pingReply : PingReplies] :
        /\ (~e.applied) => (e.outcome = "io" /\ cl.cmd.op = "SET")
        /\ (e.pingReply # Status("PONG")) => (e.outcome = "ok" /\ cl.cmd.op = "PING")}

\* First poll of exec: borrow_mut (panics when the cell is borrowed), then the
\* query; the Single arm suspends with the RefMut alive, the Cluster arm does not.
Start(t, h, cmd, ty, isPing) ==
    /\ newState = "ok"
    /\ pc[t] = "idle"
    /\ h \in DOMAIN handles \ {1}
    /\ nCalls < MaxCalls
    /\ nCalls' = nCalls + 1
    /\ LET cl == [id |-> nCalls + 1, h |-> h, con |-> handles[h].con,
                  variant |-> handles[h].variant, cmd |-> cmd, ty |-> ty,
                  ping |-> isPing, held |-> Holders(guard, handles[h].con) # {}]
       IN IF ~BorrowMut(guard, cl.con)
          THEN /\ pc' = [pc EXCEPT ![t] = "panicked"]
               /\ call' = [call EXCEPT ![t] = [cl EXCEPT !.cmd = PingCmd, !.ty = "Unit", !.h = 0]]
               /\ UNCHANGED <<guard, store, wire, acq, done, lastSet, errSeen>>
          ELSE IF Suspends(cl.variant)
          THEN /\ pc' = [pc EXCEPT ![t] = "suspended"]
               /\ call' = [call EXCEPT ![t] = cl]
               /\ guard' = guard \cup {<<cl.con, t>>}
               /\ acq' = Append(acq, cl.id)
               /\ UNCHANGED <<store, wire, done, lastSet, errSeen>>
          ELSE /\ acq' = Append(acq, cl.id)
               /\ \E e \in Endings(cl) :
                     Complete(t, cl, e.outcome, e.applied, e.pingReply,
                              guard \cup {<<cl.con, t>>})
    /\ UNCHANGED <<facadeVars, handles, strong>>

\* RedisConnection::exec::<T>(cmd)
Exec(t, h, cmd, ty) == Start(t, h, cmd, ty, FALSE)

\* RedisConnection::ping(): exec::<Value>(PING), then the match on its result.
Ping(t, h) == Start(t, h, PingCmd, "Value", TRUE)

\* The awaited query_async of a suspended Single exec resolves.
Resume(t) ==
    /\ pc[t] = "suspended"
    /\ \E e \in Endings(call[t]) :
          Complete(t, call[t], e.outcome, e.applied, e.pingReply, guard)
    /\ UNCHANGED <<acq, nCalls>>
    /\ UNCHANGED <<facadeVars, handles, strong>>

Next ==
    \/ \E c \in Configs : RedisNew(c)
    \/ RedisGetClient
    \/ \E h \in 2..MaxHandles : RedisConnectionGetClient(h)
    \/ \E t \in Tasks, h \in 2..MaxHandles, cmd \in ExecCmds, ty \in Types : Exec(t, h, cmd, ty)
    \/ \E t \in Tasks, h \in 2..MaxHandles : Ping(t, h)
    \/ \E t \in Tasks : Resume(t)

Spec == Init /\ [][Next]_vars

\* ------------------------------------------------------------ properties
Returned == done.t # 0
IsPrefix(a, b) == Len(a) <= Len(b) /\ \A i \in DOMAIN a : a[i] = b[i]

\* C1: a GET of key K that returns after a successful SET K V (no write to K
\* in between), on whichever handle, yields V decoded into the requested type;
\* with a sound transport and T = String it is Ok(V).
C1_RoundTripAcrossHandles ==
    (Returned /\ done.call.cmd.op = "GET" /\ lastSet[done.call.cmd.k].v # Unknown) =>
        LET v == lastSet[done.call.cmd.k].v
        IN /\ (done.outcome = "ok" /\ done.call.ty = "Str") => done.ret.tag = "Ok"
           /\ (done.ret.tag = "Ok" /\ done.call.ty = "Str") => done.ret.s = v
           /\ (done.ret.tag = "Ok" /\ done.call.ty = "Unit") => done.ret = Ok("Unit", "", Nil)

C1_Witness ==
    /\ Returned /\ done.call.cmd = GetCmd("testval") /\ done.call.ty = "Str"
    /\ done.ret.tag = "Ok" /\ done.ret.s = "4"
    /\ lastSet["testval"] = [v |-> "4", h |-> 2] /\ done.call.h = 3

\* C2 (as stated): ping never faults, and returns true exactly when the PING's
\* exec result is Ok(Status "PONG").
C2_PingNeverFaults ==
    /\ \A t \in Tasks : call[t].ping => pc[t] # "panicked"
    /\ (Returned /\ done.call.ping) =>
          /\ done.ret.tag = "Bool"
          /\ (done.ret.s = "true") <=> (done.res.tag = "Ok" /\ done.res.raw = Status("PONG"))

\* C2 (amended): a ping whose exec acquires the guard returns a boolean, true
\* exactly when the exec result is Ok(Status "PONG") and false for every other
\* reply and every exec error; a ping faults only when it met a held guard.
C2_PingBooleanUnlessGuardHeld ==
    /\ \A t \in Tasks : (call[t].ping /\ pc[t] = "panicked") => call[t].held
    /\ (Returned /\ done.call.ping) =>
          /\ done.ret.tag = "Bool"
          /\ done.ret.s \in {"true", "false"}
          /\ (done.ret.s = "true") <=> (done.outcome = "ok" /\ done.reply = Status("PONG"))
          /\ (done.ret.s = "true") <=> (done.res.tag = "Ok" /\ done.res.raw = Status("PONG"))

C2_Witness ==
    /\ Returned /\ done.call.ping /\ done.outcome = "ok"
    /\ done.reply = Status("LOADING") /\ done.ret = Bool(FALSE)

\* C3: Redis::new never aborts: a bad configuration gives Err and no facade,
\* and Ok comes only with an opened connection.
C3_NewNeverAborts ==
    /\ newState # "panic"
    /\ (newState # "init" /\ cfg.addr # "good") =>
          (newState = "err" /\ handles = << >> /\ client = "None")
    /\ newState = "ok" => opened >= 1

\* C4: the retained client, every handle's connection and the configuration
\* have the same variant, and no step changes the variant of any of them.
C4_VariantInv ==
    newState = "ok" =>
        /\ client = cfg.variant
        /\ \A h \in DOMAIN handles : handles[h].variant = cfg.variant
        /\ \A t \in Tasks : call[t].id # 0 => call[t].variant = cfg.variant

C4_VariantFrame ==
    newState = "ok" =>
        /\ client' = client
        /\ cfg' = cfg
        /\ \A h \in DOMAIN handles : h \in DOMAIN handles' /\ handles'[h] = handles[h]

C4_VariantAgreement == [](C4_VariantInv) /\ [][C4_VariantFrame]_vars

C4_Witness ==
    /\ newState = "ok" /\ cfg.variant = "Cluster" /\ client = "Cluster"
    /\ Len(handles) = 3 /\ handles[3].variant = "Cluster" /\ Returned

\* C5 (as stated): a caller that starts while the guard is held waits and runs
\* later; it does not fault.
C5_SecondCallerWaits ==
    \A t \in Tasks : call[t].held => pc[t] # "panicked"

\* C5 (amended): a caller that starts exec or ping while the guard is held does
\* not wait: it faults at once, never acquires the guard and its command never
\* reaches the connection; no call that returned had met a held guard.
C5_SecondCallerFaults ==
    /\ \A t \in Tasks : call[t].held =>
          /\ pc[t] = "panicked"
          /\ Occurrences(acq, call[t].id) = 0
          /\ Occurrences(wire, call[t].id) = 0
          /\ <<call[t].con, t>> \notin guard
    /\ ~done.call.held

C5_Witness ==
    \E t, u \in Tasks :
        /\ pc[t] = "suspended" /\ call[t].variant = "Single" /\ ~call[t].ping
        /\ pc[u] = "panicked" /\ call[u].held /\ call[u].con = call[t].con

\* C6: every failure of exec (transport, malformed reply, undecodable reply) is
\* the Err the caller gets; a call that returned reached the connection exactly
\* once, no call more than once, and no failure becomes a fault.
C6_FailuresReturned ==
    /\ \A id \in 1..nCalls : Occurrences(wire, id) <= 1
    /\ \A t \in Tasks : pc[t] = "panicked" =>
          (call[t].held /\ Occurrences(wire, call[t].id) = 0)
    /\ Returned =>
          /\ Occurrences(wire, done.call.id) = 1
          /\ done.outcome = "io" => done.res = Err("io")
          /\ done.outcome = "malformed" => done.res = Err("protocol")
          /\ (done.outcome = "ok" /\ done.call.ty = "Str" /\ done.reply = Nil)
                => done.res = Err("type")
          /\ ~done.call.ping => done.ret = done.res

C6_Witness ==
    /\ Returned /\ done.call.variant = "Cluster" /\ done.call.id = 2
    /\ done.outcome = "ok" /\ done.ret = Err("type")

\* C7: a returned exec, failed or not, leaves the guard free and the handle on
\* the same connection; the guard is only ever held by a suspended exec, so a
\* call made after a failure is rejected by nothing but such an exec.
C7_NoFailureStateLeft ==
    /\ \A p \in guard : pc[p[2]] = "suspended" /\ call[p[2]].con = p[1]
    /\ Returned =>
          /\ handles[done.call.h].con = done.call.con
          /\ pc[done.t] = "idle" => <<done.call.con, done.t>> \notin guard
    /\ \A t \in Tasks : (errSeen /\ pc[t] = "panicked") => call[t].held

C7_Witness ==
    /\ Returned /\ errSeen /\ done.res.tag = "Ok" /\ done.call.id = 2
    /\ done.call.variant = "Single" /\ guard = {}

\* C8: a successful Redis::new opens exactly one connection and it stays the
\* only one; every handle references it; get_client changes only the handle
\* list and the share count.
C8_OneConnectionInv ==
    /\ newState # "ok" => (opened = 0 /\ handles = << >>)
    /\ newState = "ok" =>
          /\ opened = 1
          /\ strong = Len(handles)
          /\ \A h \in DOMAIN handles : handles[h].con = 1

C8_GetClientFrame ==
    (newState = "ok" /\ handles' # handles) =>
        /\ strong' = strong + 1
        /\ Len(handles') = Len(handles) + 1
        /\ UNCHANGED <<facadeVars, taskVars>>

C8_OneConnection == [](C8_OneConnectionInv) /\ [][C8_GetClientFrame]_vars

C8_Witness ==
    /\ newState = "ok" /\ opened = 1 /\ strong = 3 /\ nCalls = 2
    /\ errSeen /\ \A h \in DOMAIN handles : handles[h].con = 1

\* C9: at most one exec holds the guard of a connection at any time, and the
\* connection serves the commands in the order their execs acquired the guard.
C9_MutualExclusion ==
    /\ \A c \in 1..MaxHandles : Cardinality(Holders(guard, c)) <= 1
    /\ IsPrefix(wire, acq)
    /\ Len(acq) - Len(wire) = Cardinality(guard)

C9_Witness ==
    /\ Cardinality(guard) = 1 /\ Len(wire) = 1 /\ Len(acq) = 2
    /\ \E t \in Tasks : pc[t] = "suspended" /\ call[t].h = 3

\* C10: a Cluster exec takes and drops the guard within one step, so no state
\* shows a Cluster guard held, no Cluster exec is suspended and none meets a
\* held guard; only Single execs are suspended holding the guard.
C10_ClusterNeverSuspends ==
    /\ \A t \in Tasks : pc[t] = "suspended" =>
          (call[t].variant = "Single" /\ <<call[t].con, t>> \in guard)
    /\ \A t \in Tasks : call[t].held => call[t].variant = "Single"
    /\ cfg.variant = "Cluster" =>
          /\ guard = {}
          /\ wire = acq
          /\ \A t \in Tasks : pc[t] = "idle"

C10_Witness ==
    /\ cfg.variant = "Cluster" /\ Len(wire) = 2 /\ Returned
    /\ done.call.variant = "Cluster" /\ done.t = 2

====
